---- MODULE Spec2Model ----
(***************************************************************************)
(* Moodle to Google Drive auto-sync (sync.py).                             *)
(*                                                                         *)
(* The model covers the sync ledger (table synced_files behind a sqlite    *)
(* connection), the Drive folder organiser (ensure_folder and the root     *)
(* lookup of main) and the sequential transfer loop of main, with the      *)
(* failures the external calls can raise.  Four specifications share the  *)
(* variables:                                                              *)
(*   Spec        repeated invocations of main over a fixed Moodle site     *)
(*   FairSpec    Spec plus the fairness of the external scheduler          *)
(*   LedgerSpec  arbitrary record_file calls on the ledger                 *)
(*   FolderSpec  arbitrary ensure_folder calls on a changing Drive         *)
(*                                                                         *)
(* Input domain: display names (course names, link texts) are single path  *)
(* components without quotes, and course display names are distinct        *)
(* within a site.  The Drive service returns the matches of a list query   *)
(* in an order the code does not choose (no orderBy): a newly created      *)
(* folder may be listed before or after the existing entries.  In Spec     *)
(* nobody but main changes the Drive, so ensure_folder is one step there;  *)
(* in FolderSpec others do, and its two requests are two steps.            *)
(***************************************************************************)
EXTENDS Integers, Sequences, FiniteSets, TLC

VARIABLES
    site,           \* Moodle pages: Seq of [course_name, resources : Seq of [name, url]]
    pc,             \* position of main
    ci,             \* index of the course being iterated (for course_url in ...)
    fi,             \* index of the file yielded by scrape_course_files
    root_id,        \* local root_id of main
    course_id,      \* local course_id of main
    conn,           \* table synced_files as seen by the open connection
    synced_files,   \* table synced_files as committed to the database file
    now,            \* CURRENT_TIMESTAMP
    drive,          \* Drive entries, in the order the service lists them
    next_id,        \* next id the Drive service hands out
    local_dirs,     \* directories made under tmp/
    staged,         \* staged files on the local disk (paths)
    log,            \* calls made by the current run, in order
    prev,           \* how the previous run ended
    fails,          \* failures injected so far
    uploaded_ever,  \* URLs whose upload completed in some run
    call,           \* history of the API-level calls (LedgerSpec, FolderSpec)
    stale,          \* the driver left the page the generator's elements belong to
    frame           \* locals of an ensure_folder call between its two requests

vars == <<site, pc, ci, fi, root_id, course_id, conn, synced_files, now, drive,
          next_id, local_dirs, staged, log, prev, fails, uploaded_ever, call,
          stale, frame>>

----------------------------------------------------------------------------
(* Bounds of the model *)

MaxFailures == 1
MaxClock == 1
MaxEntries == 3
MaxSeq == 4

----------------------------------------------------------------------------
(* Program constants *)

DRIVE_ROOT == "Moodle Sync"
FOLDER_MIME == "application/vnd.google-apps.folder"
\* MediaFileUpload guesses the type from the file name; the names of the input
\* domain end in .pdf
UPLOAD_MIME == "application/pdf"
TOP == 0        \* My Drive, the parent of an entry created without parents
NoId == -1      \* a local that is not assigned yet

----------------------------------------------------------------------------
(* Sequences *)

InsertAt(s, pos, e) == SubSeq(s, 1, pos - 1) \o <<e>> \o SubSeq(s, pos, Len(s))

Range(s) == {s[i] : i \in 1..Len(s)}

----------------------------------------------------------------------------
(* Ledger: table synced_files *)

\* A table is [rows, seq]: the rows of synced_files and the AUTOINCREMENT counter
\* sqlite keeps for it in sqlite_sequence.
EmptyTable == [rows |-> <<>>, seq |-> 0]

Urls(t) == {t.rows[i].file_url : i \in 1..Len(t.rows)}

RowsFor(t, u) == {i \in 1..Len(t.rows) : t.rows[i].file_url = u}

\* id INTEGER PRIMARY KEY AUTOINCREMENT: one more than the largest id ever handed out
NextRowId(t) ==
    LET ids == {t.rows[i].id : i \in 1..Len(t.rows)} \cup {t.seq}
    IN  1 + (CHOOSE m \in ids : \A x \in ids : x <= m)

InitDb(disk) == disk

\* faulty variant: the test of fetchone() inverted
FileAlreadySyncedInverted(t, file_url) == ~(\E i \in 1..Len(t.rows) : t.rows[i].file_url = file_url)

\* faulty variant: the lookup never finds a row
FileAlreadySyncedNever(t, file_url) == FALSE

FileAlreadySynced(t, file_url) == \E i \in 1..Len(t.rows) : t.rows[i].file_url = file_url

NewRow(tab, file_url, file_name, course, t) ==
    [id |-> NextRowId(tab), file_url |-> file_url, file_name |-> file_name,
     course |-> course, synced_at |-> t]

\* faulty variant: INSERT OR REPLACE
InsertOrReplace(tab, file_url, file_name, course, t) ==
    [rows |-> Append(SelectSeq(tab.rows, LAMBDA r : r.file_url # file_url),
                     NewRow(tab, file_url, file_name, course, t)),
     seq |-> NextRowId(tab)]

\* INSERT OR IGNORE: the id is drawn, and the counter advanced, before the UNIQUE
\* constraint on file_url makes sqlite drop the row.
InsertOrIgnore(tab, file_url, file_name, course, t) ==
    IF \E i \in 1..Len(tab.rows) : tab.rows[i].file_url = file_url
    THEN [rows |-> tab.rows, seq |-> NextRowId(tab)]
    ELSE [rows |-> Append(tab.rows, NewRow(tab, file_url, file_name, course, t)),
          seq |-> NextRowId(tab)]

\* faulty variant: record_file without its conn.commit()
RecordFileNoCommit(cn, disk, file_url, file_name, course, t) ==
    [conn |-> InsertOrIgnore(cn, file_url, file_name, course, t), disk |-> disk,
     err |-> FALSE]

RecordFile(cn, disk, file_url, file_name, course, t) ==
    LET tab == InsertOrIgnore(cn, file_url, file_name, course, t)
    IN  [conn |-> tab, disk |-> tab, err |-> FALSE]

----------------------------------------------------------------------------
(* Drive *)

Folder(id, name, parent) ==
    [id |-> id, name |-> name, mimeType |-> FOLDER_MIME, parent |-> parent, trashed |-> FALSE]

ListFolders(d, parent_id, name) ==
    SelectSeq(d, LAMBDA e : /\ e.parent = parent_id
                            /\ e.mimeType = FOLDER_MIME
                            /\ e.name = name
                            /\ ~e.trashed)

ListRoots(d, name) ==
    SelectSeq(d, LAMBDA e : /\ e.name = name
                            /\ e.mimeType = FOLDER_MIME
                            /\ ~e.trashed)

InsertPositions(d) == {1, Len(d) + 1}

\* faulty variant: ensure_folder creating the folder whatever the lookup returned
EnsureFolderAlwaysCreate(d, nid, parent_id, name, files, pos) ==
    [id |-> nid, drive |-> InsertAt(d, pos, Folder(nid, name, parent_id)), next_id |-> nid + 1]

\* ensure_folder after its list request returned files: d is the Drive at the time of
\* the create request
EnsureFolderFinish(d, nid, parent_id, name, files, pos) ==
    IF files # <<>>
    THEN [id |-> files[1].id, drive |-> d, next_id |-> nid]
    ELSE [id |-> nid, drive |-> InsertAt(d, pos, Folder(nid, name, parent_id)),
          next_id |-> nid + 1]

\* ensure_folder with nothing else changing the Drive between its two requests
EnsureFolder(d, nid, parent_id, name, pos) ==
    EnsureFolderFinish(d, nid, parent_id, name, ListFolders(d, parent_id, name), pos)

ResolveRootFolder(d, nid, name, pos) ==
    LET files == ListRoots(d, name)
    IN  IF files # <<>>
        THEN [id |-> files[1].id, drive |-> d, next_id |-> nid]
        ELSE [id |-> nid, drive |-> InsertAt(d, pos, Folder(nid, name, TOP)),
              next_id |-> nid + 1]

Basename(path) == path[Len(path)]

\* faulty variant: the upload named after the directory of the path
UploadEntryWrongName(nid, parent_id, path) ==
    [id |-> nid, name |-> path[Len(path) - 1], mimeType |-> UPLOAD_MIME, parent |-> parent_id,
     trashed |-> FALSE]

UploadEntry(nid, parent_id, path) ==
    [id |-> nid, name |-> Basename(path), mimeType |-> UPLOAD_MIME, parent |-> parent_id,
     trashed |-> FALSE]

EntryOf(d, id) == CHOOSE e \in Range(d) : e.id = id

----------------------------------------------------------------------------
(* Moodle *)

MoodleFile(name, url, course) == [name |-> name, url |-> url, course |-> course]

ScrapeCourseFiles(page) ==
    [i \in 1..Len(page.resources) |->
        MoodleFile(page.resources[i].name, page.resources[i].url, page.course_name)]

Page(course, resources) == [course_name |-> course, resources |-> resources]

Res(name, url) == [name |-> name, url |-> url]

Sites ==
    { <<Page("CS101", <<Res("notes.pdf", "https://x/1")>>)>>,
      <<Page("CS101", <<Res("notes.pdf", "https://x/1"), Res("slides.pdf", "https://x/2")>>)>>,
      <<Page("CS101", <<Res("notes.pdf", "https://x/1")>>),
        Page("MA201", <<Res("sheet.pdf", "https://x/2")>>)>>,
      <<Page(DRIVE_ROOT, <<Res("notes.pdf", "https://x/1")>>),
        Page("CS101", <<Res("slides.pdf", "https://x/2")>>)>>,
      <<Page("CS101", <<Res("notes.pdf", "https://x/1")>>),
        Page("MA201", <<Res("notes.pdf", "https://x/1")>>)>>,
      <<Page("CS101", <<>>),
        Page("MA201", <<Res("sheet.pdf", "https://x/2")>>)>>,
      <<>> }

MFile(c, f) == ScrapeCourseFiles(site[c])[f]

SiteUrls == {site[c].resources[f].url : <<c, f>> \in
                {p \in (1..Len(site)) \X (1..2) : p[2] <= Len(site[p[1]].resources)}}

LocalDir(mfile) == <<"tmp", mfile.course>>

LocalPath(mfile) == LocalDir(mfile) \o <<mfile.name>>

----------------------------------------------------------------------------
(* Control flow of main *)

TransferSteps == {"folder", "mkdir", "get", "stage", "upload", "record", "remove"}

\* every step of a run calls the database, Drive, the webdriver or the file system
Failable == {"start", "root", "courses", "scrape", "next", "check", "folder", "mkdir",
             "get", "stage", "upload", "record", "remove", "close"}

\* faulty variant: record_file called before upload_file
StepAfterRecordFirst(step) ==
    CASE step = "folder" -> "mkdir"
      [] step = "mkdir"  -> "get"
      [] step = "get"    -> "stage"
      [] step = "stage"  -> "record"
      [] step = "record" -> "upload"
      [] step = "upload" -> "remove"

StepAfter(step) ==
    CASE step = "folder" -> "mkdir"
      [] step = "mkdir"  -> "get"
      [] step = "get"    -> "stage"
      [] step = "stage"  -> "upload"
      [] step = "upload" -> "record"
      [] step = "record" -> "remove"

AfterItem(c, f) ==
    IF f < Len(site[c].resources) THEN [pc |-> "next", ci |-> c, fi |-> f + 1]
    ELSE IF c < Len(site) THEN [pc |-> "scrape", ci |-> c + 1, fi |-> 1]
    ELSE [pc |-> "close", ci |-> c, fi |-> f]

\* faulty variant: the failure of an item caught, the loop going on
AfterFailureContinue(c, f) ==
    IF c <= Len(site) THEN AfterItem(c, f) ELSE [pc |-> "close", ci |-> c, fi |-> f]

AfterFailure(c, f) == [pc |-> "aborted", ci |-> c, fi |-> f]

Event(op, ok) == [op |-> op, c |-> ci, f |-> fi, ok |-> ok]

NoFrame == [active |-> FALSE]

NoPrev == [outcome |-> "none", log |-> <<>>, ledger |-> EmptyTable, drive |-> <<>>]

Init ==
    /\ site \in Sites
    /\ pc = "start"
    /\ ci = 1
    /\ fi = 1
    /\ root_id = NoId
    /\ course_id = NoId
    /\ conn = EmptyTable
    /\ synced_files = EmptyTable
    /\ now = 0
    /\ drive = <<>>
    /\ next_id = 1
    /\ local_dirs = {}
    /\ staged = {}
    /\ log = <<>>
    /\ prev = NoPrev
    /\ fails = 0
    /\ uploaded_ever = {}
    /\ call = <<>>
    /\ stale = FALSE
    /\ frame = NoFrame

\* with db_connection() as conn: init_db(conn); authenticate, login
StartRun ==
    /\ pc = "start"
    /\ conn' = InitDb(synced_files)
    /\ pc' = "root"
    /\ UNCHANGED <<site, ci, fi, root_id, course_id, synced_files, now, drive, next_id,
                   local_dirs, staged, log, prev, fails, uploaded_ever, call,
                   stale, frame>>

\* root_results = service.files().list(...); find or create the root
ResolveRoot ==
    /\ pc = "root"
    /\ \E pos \in InsertPositions(drive) :
         LET r == ResolveRootFolder(drive, next_id, DRIVE_ROOT, pos)
         IN  /\ root_id' = r.id
             /\ drive' = r.drive
             /\ next_id' = r.next_id
    /\ pc' = "courses"
    /\ UNCHANGED <<site, ci, fi, course_id, conn, synced_files, now, local_dirs, staged,
                   log, prev, fails, uploaded_ever, call,
                   stale, frame>>

\* for course_url in scraper.list_courses()
ListCourses ==
    /\ pc = "courses"
    /\ ci' = 1
    /\ fi' = 1
    /\ pc' = IF Len(site) = 0 THEN "close" ELSE "scrape"
    /\ UNCHANGED <<site, root_id, course_id, conn, synced_files, now, drive, next_id,
                   local_dirs, staged, log, prev, fails, uploaded_ever, call,
                   stale, frame>>

\* for mfile in scraper.scrape_course_files(course_url): the first next() of the
\* generator loads the course page, finds its a.resource elements and reads the first
ScrapeCourse ==
    /\ pc = "scrape"
    /\ fi' = 1
    /\ stale' = FALSE
    /\ IF Len(ScrapeCourseFiles(site[ci])) > 0
       THEN pc' = "check" /\ ci' = ci
       ELSE IF ci < Len(site) THEN pc' = "scrape" /\ ci' = ci + 1
       ELSE pc' = "close" /\ ci' = ci
    /\ UNCHANGED <<site, root_id, course_id, conn, synced_files, now, drive, next_id, local_dirs, staged, log, prev, fails, uploaded_ever, call, frame>>

\* The for loop resumes the generator: href and text of the next element are read
\* now, and the read raises when the driver has left the page of the element.
ResumeEnumerator ==
    /\ pc = "next"
    /\ IF stale
       THEN /\ log' = Append(log, Event("next", FALSE))
            /\ LET nx == AfterFailure(ci, fi)
               IN  pc' = nx.pc /\ ci' = nx.ci /\ fi' = nx.fi
            /\ conn' = synced_files
       ELSE /\ pc' = "check"
            /\ UNCHANGED <<ci, fi, log, conn>>
    /\ UNCHANGED <<site, root_id, course_id, synced_files, now, drive, next_id,
                   local_dirs, staged, prev, fails, uploaded_ever, call, stale, frame>>

\* if file_already_synced(conn, mfile.url): continue
CheckSynced ==
    /\ pc = "check"
    /\ IF FileAlreadySynced(conn, MFile(ci, fi).url)
       THEN LET nx == AfterItem(ci, fi)
            IN  /\ pc' = nx.pc /\ ci' = nx.ci /\ fi' = nx.fi
                /\ log' = Append(log, Event("skip", TRUE))
       ELSE /\ pc' = "folder" /\ ci' = ci /\ fi' = fi
            /\ log' = Append(log, Event("check", TRUE))
    /\ UNCHANGED <<site, root_id, course_id, conn, synced_files, now, drive, next_id,
                   local_dirs, staged, prev, fails, uploaded_ever, call,
                   stale, frame>>

\* course_id = ensure_folder(service, root_id, mfile.course)
EnsureCourseFolder ==
    /\ pc = "folder"
    /\ \E pos \in InsertPositions(drive) :
         LET r == EnsureFolder(drive, next_id, root_id, MFile(ci, fi).course, pos)
         IN  /\ course_id' = r.id
             /\ drive' = r.drive
             /\ next_id' = r.next_id
    /\ pc' = StepAfter("folder")
    /\ log' = Append(log, Event("folder", TRUE))
    /\ UNCHANGED <<site, ci, fi, root_id, conn, synced_files, now, local_dirs, staged,
                   prev, fails, uploaded_ever, call,
                   stale, frame>>

\* os.makedirs(local_dir, exist_ok=True)
MakeLocalDir ==
    /\ pc = "mkdir"
    /\ local_dirs' = local_dirs \cup {<<"tmp">>, LocalDir(MFile(ci, fi))}
    /\ pc' = StepAfter("mkdir")
    /\ UNCHANGED <<site, ci, fi, root_id, course_id, conn, synced_files, now, drive, next_id,
                   staged, log, prev, fails, uploaded_ever, call,
                   stale, frame>>

\* scraper.driver.get(mfile.url): the driver loads the document of the URL, or keeps
\* the course page when the URL answers with a download
FetchPage ==
    /\ pc = "get"
    /\ \E navigated \in BOOLEAN : stale' = (stale \/ navigated)
    /\ pc' = StepAfter("get")
    /\ log' = Append(log, Event("get", TRUE))
    /\ UNCHANGED <<site, ci, fi, root_id, course_id, conn, synced_files, now, drive, next_id, local_dirs, staged, prev, fails, uploaded_ever, call, frame>>

\* with open(local_path, "wb") as f: f.write(<screenshot of body>)
StageFile ==
    /\ pc = "stage"
    /\ staged' = staged \cup {LocalPath(MFile(ci, fi))}
    /\ pc' = StepAfter("stage")
    /\ log' = Append(log, Event("stage", TRUE))
    /\ UNCHANGED <<site, ci, fi, root_id, course_id, conn, synced_files, now, drive, next_id,
                   local_dirs, prev, fails, uploaded_ever, call,
                   stale, frame>>

\* upload_file(service, course_id, local_path)
UploadFile ==
    /\ pc = "upload"
    /\ drive' = Append(drive, UploadEntry(next_id, course_id, LocalPath(MFile(ci, fi))))
    /\ next_id' = next_id + 1
    /\ uploaded_ever' = uploaded_ever \cup {MFile(ci, fi).url}
    /\ pc' = StepAfter("upload")
    /\ log' = Append(log, Event("upload", TRUE))
    /\ UNCHANGED <<site, ci, fi, root_id, course_id, conn, synced_files, now, local_dirs,
                   staged, prev, fails, call,
                   stale, frame>>

\* record_file(conn, mfile.url, mfile.name, mfile.course)
RecordSynced ==
    /\ pc = "record"
    /\ LET m == MFile(ci, fi)
           r == RecordFile(conn, synced_files, m.url, m.name, m.course, now)
       IN  /\ conn' = r.conn
           /\ synced_files' = r.disk
    /\ pc' = StepAfter("record")
    /\ log' = Append(log, Event("record", TRUE))
    /\ UNCHANGED <<site, ci, fi, root_id, course_id, now, drive, next_id, local_dirs,
                   staged, prev, fails, uploaded_ever, call,
                   stale, frame>>

\* os.remove(local_path)
RemoveStaged ==
    /\ pc = "remove"
    /\ staged' = staged \ {LocalPath(MFile(ci, fi))}
    /\ LET nx == AfterItem(ci, fi)
       IN  pc' = nx.pc /\ ci' = nx.ci /\ fi' = nx.fi
    /\ log' = Append(log, Event("remove", TRUE))
    /\ UNCHANGED <<site, root_id, course_id, conn, synced_files, now, drive, next_id,
                   local_dirs, prev, fails, uploaded_ever, call,
                   stale, frame>>

\* scraper.close(); leaving db_connection: conn.commit(); conn.close()
CloseRun ==
    /\ pc = "close"
    /\ synced_files' = conn
    /\ pc' = "done"
    /\ UNCHANGED <<site, ci, fi, root_id, course_id, conn, now, drive, next_id,
                   local_dirs, staged, log, prev, fails, uploaded_ever, call,
                   stale, frame>>

\* An external call of the current step raises: the exception leaves main, and the
\* connection is dropped without the commit of db_connection.
FailStep ==
    /\ pc \in Failable
    /\ fails < MaxFailures
    /\ fails' = fails + 1
    /\ log' = Append(log, Event(pc, FALSE))
    /\ LET nx == AfterFailure(ci, fi)
       IN  pc' = nx.pc /\ ci' = nx.ci /\ fi' = nx.fi
    /\ conn' = synced_files
    /\ UNCHANGED <<site, root_id, course_id, synced_files, now, drive, next_id,
                   local_dirs, staged, prev, uploaded_ever, call,
                   stale, frame>>

\* The screenshot or the write raises after open(local_path, "wb") created the file.
FailStageAfterOpen ==
    /\ pc = "stage"
    /\ fails < MaxFailures
    /\ fails' = fails + 1
    /\ staged' = staged \cup {LocalPath(MFile(ci, fi))}
    /\ log' = Append(log, Event(pc, FALSE))
    /\ LET nx == AfterFailure(ci, fi)
       IN  pc' = nx.pc /\ ci' = nx.ci /\ fi' = nx.fi
    /\ conn' = synced_files
    /\ UNCHANGED <<site, root_id, course_id, synced_files, now, drive, next_id,
                   local_dirs, prev, uploaded_ever, call,
                   stale, frame>>

\* os.makedirs makes tmp and then fails on tmp/<course>: the exception leaves main
\* with tmp on disk.
FailMakeLocalDirAfterTmp ==
    /\ pc = "mkdir"
    /\ <<"tmp">> \notin local_dirs
    /\ fails < MaxFailures
    /\ fails' = fails + 1
    /\ local_dirs' = local_dirs \cup {<<"tmp">>}
    /\ log' = Append(log, Event(pc, FALSE))
    /\ LET nx == AfterFailure(ci, fi)
       IN  pc' = nx.pc /\ ci' = nx.ci /\ fi' = nx.fi
    /\ conn' = synced_files
    /\ UNCHANGED <<site, root_id, course_id, synced_files, now, drive, next_id,
                   staged, prev, uploaded_ever, call,
                   stale, frame>>

\* A second of the wall clock passes (CURRENT_TIMESTAMP has a resolution of one
\* second): during a run, between two runs, or not at all between two records.
Tick ==
    /\ now < MaxClock
    /\ now' = now + 1
    /\ UNCHANGED <<site, pc, ci, fi, root_id, course_id, conn, synced_files, drive,
                   next_id, local_dirs, staged, log, prev, fails, uploaded_ever, call,
                   stale, frame>>

\* The external scheduler invokes the tool again.
NextRun ==
    /\ pc \in {"done", "aborted"}
    /\ prev' = [outcome |-> pc, log |-> log, ledger |-> synced_files, drive |-> drive]
    /\ pc' = "start"
    /\ ci' = 1
    /\ fi' = 1
    /\ root_id' = NoId
    /\ course_id' = NoId
    /\ conn' = EmptyTable
    /\ log' = <<>>
    /\ stale' = FALSE
    /\ UNCHANGED <<site, synced_files, now, drive, next_id, local_dirs, staged, fails, uploaded_ever, call, frame>>

Next ==
    \/ StartRun
    \/ ResolveRoot
    \/ ListCourses
    \/ ScrapeCourse
    \/ ResumeEnumerator
    \/ CheckSynced
    \/ EnsureCourseFolder
    \/ MakeLocalDir
    \/ FetchPage
    \/ StageFile
    \/ UploadFile
    \/ RecordSynced
    \/ RemoveStaged
    \/ CloseRun
    \/ FailStep
    \/ FailMakeLocalDirAfterTmp
    \/ FailStageAfterOpen
    \/ Tick
    \/ NextRun

Spec == Init /\ [][Next]_vars

\* The scheduler keeps invoking the tool, and a step of the run that can be taken is
\* taken.  The external calls succeed eventually: the failures of FailStep,
\* FailMakeLocalDirAfterTmp and FailStageAfterOpen are limited to MaxFailures.
RunStep ==
    \/ StartRun \/ ResolveRoot \/ ListCourses \/ ScrapeCourse \/ ResumeEnumerator
    \/ CheckSynced \/ EnsureCourseFolder \/ MakeLocalDir \/ FetchPage \/ StageFile
    \/ UploadFile \/ RecordSynced \/ RemoveStaged \/ CloseRun

FairSpec == Spec /\ WF_vars(NextRun) /\ WF_vars(RunStep)

----------------------------------------------------------------------------
(* LedgerSpec: record_file and file_already_synced called directly *)

ApiUrls == {"https://x/1", "https://x/2"}
ApiNames == {"notes.pdf", "slides.pdf"}
ApiCourses == {"CS101", "MA201"}

ApiInit ==
    /\ site = <<>>
    /\ pc = "api"
    /\ ci = 1
    /\ fi = 1
    /\ root_id = NoId
    /\ course_id = NoId
    /\ conn = InitDb(EmptyTable)
    /\ synced_files = InitDb(EmptyTable)
    /\ now = 0
    /\ drive = <<>>
    /\ next_id = 1
    /\ local_dirs = {}
    /\ staged = {}
    /\ log = <<>>
    /\ prev = NoPrev
    /\ fails = 0
    /\ uploaded_ever = {}
    /\ call = <<>>
    /\ stale = FALSE
    /\ frame = NoFrame

ApiRecordFile ==
    \E u \in ApiUrls, n \in ApiNames, c \in ApiCourses :
        LET r == RecordFile(conn, synced_files, u, n, c, now)
        IN  /\ conn.seq < MaxSeq
            /\ conn' = r.conn
            /\ synced_files' = r.disk
            /\ call' = <<[op |-> "record_file", url |-> u, name |-> n, course |-> c,
                          existed |-> RowsFor(synced_files, u) # {},
                          before |-> synced_files, err |-> r.err]>>
            /\ UNCHANGED <<site, pc, ci, fi, root_id, course_id, now, drive, next_id,
                           local_dirs, staged, log, prev, fails, uploaded_ever,
                   stale, frame>>

ApiFileAlreadySynced ==
    \E u \in ApiUrls :
        /\ call' = <<[op |-> "file_already_synced", url |-> u,
                      result |-> FileAlreadySynced(conn, u)]>>
        /\ UNCHANGED <<site, pc, ci, fi, root_id, course_id, conn, synced_files, now, drive,
                       next_id, local_dirs, staged, log, prev, fails, uploaded_ever,
                   stale, frame>>

LedgerNext == ApiRecordFile \/ ApiFileAlreadySynced \/ Tick

LedgerSpec == ApiInit /\ [][LedgerNext]_vars

----------------------------------------------------------------------------
(* FolderSpec: ensure_folder called directly, with the Drive changed from outside *)

FolderNames == {"CS101", "MA201"}

Parents(d) ==
    {TOP} \cup {e.id : e \in {x \in Range(d) : x.mimeType = FOLDER_MIME /\ ~x.trashed}}

Count(d, parent_id, name) == Len(ListFolders(d, parent_id, name))

LastTwo(s) == IF Len(s) > 2 THEN SubSeq(s, Len(s) - 1, Len(s)) ELSE s

\* ensure_folder, first request: service.files().list(q=query, ...).execute()
ApiEnsureFolderList ==
    /\ ~frame.active
    /\ \E parent \in Parents(drive), name \in FolderNames :
          LET files == ListFolders(drive, parent, name)
          IN  /\ files = <<>> => next_id <= MaxEntries
              /\ frame' = [active |-> TRUE, parent |-> parent, name |-> name,
                           files |-> files, clean |-> TRUE]
    /\ UNCHANGED <<site, pc, ci, fi, root_id, course_id, conn, synced_files, now, drive,
                   next_id, local_dirs, staged, log, prev, fails, uploaded_ever, call,
                   stale>>

\* ensure_folder, the rest: return files[0]["id"], or the create request
ApiEnsureFolderReturn ==
    /\ frame.active
    /\ \E pos \in InsertPositions(drive) :
          LET r == EnsureFolderFinish(drive, next_id, frame.parent, frame.name,
                                      frame.files, pos)
          IN  /\ drive' = r.drive
              /\ next_id' = r.next_id
              /\ call' = IF frame.clean
                         THEN LastTwo(Append(call,
                                 [parent |-> frame.parent, name |-> frame.name, id |-> r.id,
                                  before |-> Len(frame.files),
                                  after |-> Count(r.drive, frame.parent, frame.name),
                                  created |-> Len(r.drive) - Len(drive)]))
                         ELSE <<>>
    /\ frame' = NoFrame
    /\ UNCHANGED <<site, pc, ci, fi, root_id, course_id, conn, synced_files, now,
                   local_dirs, staged, log, prev, fails, uploaded_ever, stale>>

\* a call in progress has seen a change of the Drive
Disturbed(fr) == IF fr.active THEN [fr EXCEPT !.clean = FALSE] ELSE fr

Reserved(fr) == IF fr.active /\ fr.files = <<>> THEN 1 ELSE 0

\* Someone else creates a folder.
ExtCreateFolder ==
    \E parent \in Parents(drive), name \in FolderNames, pos \in InsertPositions(drive) :
        /\ next_id + Reserved(frame) <= MaxEntries
        /\ drive' = InsertAt(drive, pos, Folder(next_id, name, parent))
        /\ next_id' = next_id + 1
        /\ call' = <<>>
        /\ frame' = Disturbed(frame)
        /\ UNCHANGED <<site, pc, ci, fi, root_id, course_id, conn, synced_files, now,
                       local_dirs, staged, log, prev, fails, uploaded_ever, stale>>

\* Someone else moves a childless folder to the trash.
ExtTrashFolder ==
    \E i \in 1..Len(drive) :
        /\ ~drive[i].trashed
        /\ \A e \in Range(drive) : e.parent # drive[i].id
        /\ drive' = [drive EXCEPT ![i].trashed = TRUE]
        /\ call' = <<>>
        /\ frame' = Disturbed(frame)
        /\ UNCHANGED <<site, pc, ci, fi, root_id, course_id, conn, synced_files, now,
                       next_id, local_dirs, staged, log, prev, fails, uploaded_ever, stale>>

FolderNext ==
    \/ ApiEnsureFolderList
    \/ ApiEnsureFolderReturn
    \/ ExtCreateFolder
    \/ ExtTrashFolder

FolderSpec == ApiInit /\ [][FolderNext]_vars

----------------------------------------------------------------------------
(* Properties *)

UrlAt(c, f) == site[c].resources[f].url

EventUrl(e) == UrlAt(e.c, e.f)

Ev(op, c, f, ok) == [op |-> op, c |-> c, f |-> f, ok |-> ok]

Has(l, e) == \E i \in 1..Len(l) : l[i] = e

FileEntries(d) == {e \in Range(d) : e.mimeType # FOLDER_MIME}

FolderEntries(d) == {e \in Range(d) : e.mimeType = FOLDER_MIME}

\* C1: the ledger never holds two rows for one file_url, and record_file on a URL
\* that already has a row leaves the committed rows as they were, without an error
\* (the AUTOINCREMENT counter, which is no part of a row, does advance).
C1_UniqueUrlIdempotentRecord ==
    /\ \A u \in Urls(synced_files) : Cardinality(RowsFor(synced_files, u)) = 1
    /\ \A u \in Urls(conn) : Cardinality(RowsFor(conn, u)) = 1
    /\ (call # <<>> /\ call[1].op = "record_file") =>
          /\ ~call[1].err
          /\ conn = synced_files
          /\ Cardinality(RowsFor(synced_files, call[1].url)) = 1
          /\ call[1].existed => synced_files.rows = call[1].before.rows

C1_Witness ==
    /\ call # <<>>
    /\ call[1].op = "record_file"
    /\ call[1].existed
    /\ \E i \in RowsFor(synced_files, call[1].url) :
          /\ synced_files.rows[i].file_name # call[1].name
          /\ synced_files.rows[i].course # call[1].course
          /\ synced_files.rows[i].synced_at # now

\* C2: an item whose URL is in the ledger when the loop reaches it gets no call but the
\* ledger lookup; a run that finds every URL ledgered makes no folder, fetch, staging,
\* upload or record call and leaves the ledger and the Drive as they were.
C2_SkipNoSideEffects ==
    /\ \A i \in 1..Len(log) :
          (log[i].op \in TransferSteps \/ (log[i].op = "check" /\ log[i].ok)) =>
             /\ EventUrl(log[i]) \notin Urls(prev.ledger)
             /\ ~\E j \in 1..(i - 1) :
                   /\ log[j].op = "record" /\ log[j].ok
                   /\ EventUrl(log[j]) = EventUrl(log[i])
                   /\ <<log[j].c, log[j].f>> # <<log[i].c, log[i].f>>
    /\ (pc = "done" /\ SiteUrls \subseteq Urls(prev.ledger)) =>
          /\ \A i \in 1..Len(log) : log[i].op = "skip"
          /\ synced_files = prev.ledger
          /\ FileEntries(drive) = FileEntries(prev.drive)
          /\ SiteUrls # {} => drive = prev.drive

C2_Witness ==
    /\ pc = "done"
    /\ SiteUrls # {}
    /\ SiteUrls \subseteq Urls(prev.ledger)
    /\ Len(log) = Cardinality({p \in (1..Len(site)) \X (1..2) :
                                  p[2] <= Len(site[p[1]].resources)})

\* C3: once the run has ended, by completing or by aborting, no staged file is left.
C3_NoStagedFileAfterRun == pc \in {"done", "aborted"} => staged = {}

\* C4: when the upload of the second of two files fails after the first was recorded
\* (by this run, or by an earlier one so that this run skipped it),
\* the committed ledger holds the first URL and not the second; the next failure-free
\* run appends exactly one row, for the second URL, keeps the earlier rows and makes
\* no transfer call for the first file.
UploadFailedAtSecond(l, c) ==
    /\ c <= Len(site)
    /\ Len(site[c].resources) = 2
    /\ l # <<>>
    /\ l[Len(l)] = Ev("upload", c, 2, FALSE)
    /\ Has(l, Ev("record", c, 1, TRUE)) \/ Has(l, Ev("skip", c, 1, TRUE))

C4_PartialRunThenResume ==
    \A c \in 1..Len(site) :
       /\ (pc = "aborted" /\ UploadFailedAtSecond(log, c)) =>
             /\ Cardinality(RowsFor(synced_files, UrlAt(c, 1))) = 1
             /\ RowsFor(synced_files, UrlAt(c, 2)) = {}
             /\ Urls(synced_files) = Urls(prev.ledger) \cup {UrlAt(c, 1)}
       /\ (pc = "done" /\ prev.outcome = "aborted" /\ UploadFailedAtSecond(prev.log, c)) =>
             /\ Len(synced_files.rows) = Len(prev.ledger.rows) + 1
             /\ SubSeq(synced_files.rows, 1, Len(prev.ledger.rows)) = prev.ledger.rows
             /\ synced_files.rows[Len(synced_files.rows)].file_url = UrlAt(c, 2)
             /\ \A i \in 1..Len(log) :
                   (log[i].c = c /\ log[i].f = 1) => log[i].op = "skip"
             /\ Cardinality({i \in 1..Len(log) : log[i] = Ev("upload", c, 2, TRUE)}) = 1
             /\ Cardinality(FileEntries(drive)) = Cardinality(FileEntries(prev.drive)) + 1

C4_Witness ==
    /\ pc = "done"
    /\ prev.outcome = "aborted"
    /\ UploadFailedAtSecond(prev.log, 1)
    /\ Len(prev.ledger.rows) = 1
    /\ Len(synced_files.rows) = 2

\* C6: the first run, over two courses with one file each and distinct URLs, when it
\* completes, leaves one root folder at the top, the two course folders under it, each
\* holding one file named as the item, and one ledger row per URL.
TwoCoursesOneFileEach ==
    /\ Len(site) = 2
    /\ \A c \in 1..2 : Len(site[c].resources) = 1
    /\ UrlAt(1, 1) # UrlAt(2, 1)
    /\ site[1].course_name # site[2].course_name

C6_TwoCoursesFromEmpty ==
    (pc = "done" /\ prev.outcome = "none" /\ TwoCoursesOneFileEach) =>
       LET roots == {e \in FolderEntries(drive) : e.parent = TOP}
           subs  == {e \in FolderEntries(drive) : e.parent # TOP}
       IN  /\ Cardinality(roots) = 1
           /\ \A r \in roots : r.name = DRIVE_ROOT /\ r.id = root_id
           /\ Cardinality(subs) = 2
           /\ \A e \in subs : e.parent = root_id
           /\ \A c \in 1..2 :
                 \E e \in subs :
                    /\ e.name = site[c].course_name
                    /\ {[name |-> x.name] : x \in {y \in FileEntries(drive) : y.parent = e.id}}
                          = {[name |-> site[c].resources[1].name]}
                    /\ Cardinality({y \in FileEntries(drive) : y.parent = e.id}) = 1
           /\ Cardinality(FileEntries(drive)) = 2
           /\ Len(drive) = 5
           /\ Len(synced_files.rows) = 2
           /\ \A c \in 1..2 : Cardinality(RowsFor(synced_files, UrlAt(c, 1))) = 1

C6_Witness ==
    /\ pc = "done"
    /\ prev.outcome = "none"
    /\ TwoCoursesOneFileEach
    /\ Len(drive) = 5

\* C7: under FairSpec every enumerated URL is eventually in the committed ledger, and
\* from some point on no run enters the transfer steps again.
C7_EventualCompletion ==
    <>[](SiteUrls \subseteq Urls(synced_files) /\ pc \notin TransferSteps)

C7_Witness ==
    /\ pc = "done"
    /\ fails > 0
    /\ prev.outcome = "done"
    /\ SiteUrls # {}
    /\ SiteUrls \subseteq Urls(prev.ledger)
    /\ \A i \in 1..Len(log) : log[i].op = "skip"

\* C8: a failed call is the last call of its run: the run is aborted, nothing follows
\* it, no call of the run is at a later item, the failed step was attempted once, and
\* an item whose folder lookup, fetch, staging, upload or record failed has no ledger
\* row.
C8_FailureAbortsRun ==
    \A i \in 1..Len(log) :
       ~log[i].ok =>
          /\ i = Len(log)
          /\ pc = "aborted"
          /\ ci = log[i].c /\ fi = log[i].f
          /\ \A j \in 1..Len(log) :
                \/ log[j].c < log[i].c
                \/ log[j].c = log[i].c /\ log[j].f <= log[i].f
          /\ Cardinality({j \in 1..Len(log) :
                             log[j].op = log[i].op /\ log[j].c = log[i].c
                             /\ log[j].f = log[i].f}) = 1
          /\ log[i].op \in {"folder", "mkdir", "get", "stage", "upload", "record"} =>
                /\ ~Has(log, Ev("record", log[i].c, log[i].f, TRUE))
                /\ EventUrl(log[i]) \notin Urls(synced_files)
                /\ synced_files = conn

C8_Witness ==
    /\ pc = "aborted"
    /\ log # <<>>
    /\ log[Len(log)] = Ev("upload", 1, 1, FALSE)
    /\ Len(site) = 2
    /\ synced_files.rows = <<>>

\* C9: every ledger row is for a URL whose upload completed, a record call directly
\* follows the completed upload of the same item, and the rows of the ledger are those
\* of the run's start plus the ones the run recorded.
C9_RecordFollowsUpload ==
    /\ Urls(synced_files) \subseteq uploaded_ever
    /\ Urls(conn) \subseteq uploaded_ever
    /\ \A i \in 1..Len(log) :
          log[i].op = "record" =>
             /\ i > 1
             /\ log[i - 1] = Ev("upload", log[i].c, log[i].f, TRUE)
    /\ Urls(synced_files) =
          Urls(prev.ledger) \cup
             {EventUrl(log[i]) : i \in {j \in 1..Len(log) : log[j].op = "record" /\ log[j].ok}}

\* An item was uploaded by one run and not recorded, and the next run transferred it
\* again and recorded it: the Drive holds it twice.
C9_Witness ==
    /\ prev.outcome = "aborted"
    /\ prev.log[Len(prev.log)] = Ev("record", 1, 1, FALSE)
    /\ UrlAt(1, 1) \notin Urls(prev.ledger)
    /\ UrlAt(1, 1) \in Urls(synced_files)
    /\ \E a, b \in FileEntries(drive) : a.id # b.id /\ a.name = b.name /\ a.parent = b.parent

\* C10: the root folder a run resolves is an entry at the top of the Drive.
C10_RootIsTopLevel ==
    root_id # NoId => EntryOf(drive, root_id).parent = TOP

\* C5: two successive ensure_folder calls with the same arguments, with no change of
\* the Drive by anyone else from the first request of the first call to the return of
\* the second, return the same id;
\* the first adds one folder when there was none and none otherwise, the second adds
\* none.
C5_EnsureFolderIdempotent ==
    (Len(call) = 2 /\ call[1].parent = call[2].parent /\ call[1].name = call[2].name) =>
       /\ call[1].id = call[2].id
       /\ call[1].after = call[1].before + (IF call[1].before = 0 THEN 1 ELSE 0)
       /\ call[2].after = call[1].after
       /\ call[2].before = call[1].after
       /\ call[2].created = 0
       /\ call[1].created = (IF call[1].before = 0 THEN 1 ELSE 0)
       /\ Count(drive, call[2].parent, call[2].name) = call[2].after

C5_Witness ==
    /\ Len(call) = 2
    /\ call[1].parent = call[2].parent
    /\ call[1].name = call[2].name
    /\ call[1].before = 0
    /\ call[1].parent # TOP
    /\ call[2].id = call[1].id

====
